---- MODULE Spec2Model ----
(***************************************************************************)
(* PMS Lite dashboard: the client-side list of property records kept by    *)
(* DashboardPage against the Firestore collection "properties", with the   *)
(* session state of AuthProvider.  Three versions of DashboardPage are in  *)
(* the repository; the variable `variant` says which one runs:             *)
(*   1  src/app/dashboard/page.tsx lines 1-592                             *)
(*   2  src/app/dashboard/page.tsx lines 593-1030                          *)
(*   3  src/app/login/page.tsx lines 220-696 (no delete, no lastUpdated)   *)
(* Every await is a suspension point: a handler is one action up to its    *)
(* await and one action for each way its continuation runs.                *)
(***************************************************************************)
EXTENDS Integers, Sequences, FiniteSets, Bags, TLC

(***************************************************************************)
(* Bounds of the model.                                                    *)
(***************************************************************************)
MaxLoads == 2
MaxInserts == 1
MaxDeletes == 1
MaxClock == 0
MaxSignOuts == 1

(***************************************************************************)
(* JavaScript values.  A number is finite, NaN or an infinity; a string is *)
(* a sequence of lexemes (a word, a numeral, a sign or one blank " ").     *)
(***************************************************************************)
Fin(n) == [k |-> "fin", n |-> n]
NaN == [k |-> "nan", n |-> 0]
PosInf == [k |-> "inf", n |-> 1]
NegInf == [k |-> "inf", n |-> -1]

Undefined == [t |-> "undefined", num |-> NaN, str |-> <<>>]
JNum(x) == [t |-> "number", num |-> x, str |-> <<>>]
JStr(s) == [t |-> "string", num |-> NaN, str |-> s]

Null == "null"
NullId == 0

Available == JStr(<<"Available">>)
Booked == JStr(<<"Booked">>)
Untitled == JStr(<<"Untitled">>)

\* Number.isFinite(x)
IsFinite(x) == x.k = "fin"

\* x >= 0 on JavaScript numbers (false for NaN)
GeZero(x) == \/ x.k = "fin" /\ x.n >= 0
             \/ x.k = "inf" /\ x.n > 0

\* x < 0 on JavaScript numbers (false for NaN)
LtZero(x) == \/ x.k = "fin" /\ x.n < 0
             \/ x.k = "inf" /\ x.n < 0

\* String.prototype.trim
RECURSIVE TrimStart(_)
TrimStart(s) == IF s # <<>> /\ Head(s) = " " THEN TrimStart(Tail(s)) ELSE s

RECURSIVE TrimEnd(_)
TrimEnd(s) == IF s # <<>> /\ s[Len(s)] = " "
              THEN TrimEnd(SubSeq(s, 1, Len(s) - 1)) ELSE s

Trim(s) == TrimEnd(TrimStart(s))

Numerals == {"0", "5", "120"}

NumeralValue(d) == CASE d = "0" -> 0
                     [] d = "5" -> 5
                     [] d = "120" -> 120

\* Number(s) for a string s
StringToNumber(s) ==
  LET t == Trim(s) IN
  IF t = <<>> THEN Fin(0)
  ELSE IF Len(t) = 1 /\ t[1] \in Numerals THEN Fin(NumeralValue(t[1]))
  ELSE IF Len(t) = 2 /\ t[1] = "-" /\ t[2] \in Numerals THEN Fin(0 - NumeralValue(t[2]))
  ELSE IF Len(t) = 2 /\ t[1] = "+" /\ t[2] \in Numerals THEN Fin(NumeralValue(t[2]))
  ELSE IF t = <<"Infinity">> \/ t = <<"+", "Infinity">> THEN PosInf
  ELSE IF t = <<"-", "Infinity">> THEN NegInf
  ELSE NaN

\* Number(v) for any value v
ToNumber(v) == CASE v.t = "undefined" -> NaN
                 [] v.t = "number" -> v.num
                 [] v.t = "string" -> StringToNumber(v.str)

\* v ?? d
Coalesce(v, d) == IF v.t = "undefined" THEN d ELSE v

(***************************************************************************)
(* Decoding of one Firestore document into a Property.                     *)
(***************************************************************************)
DecodeStrict(d) ==
  LET priceRaw == ToNumber(d.pricePerNight) IN
  [id |-> d.id,
   name |-> IF d.name.t = "string" THEN JStr(Trim(d.name.str)) ELSE Untitled,
   pricePerNight |-> IF IsFinite(priceRaw) /\ GeZero(priceRaw) THEN priceRaw ELSE Fin(0),
   status |-> IF d.status = Booked THEN Booked ELSE Available]

DecodeLoose(d) ==
  [id |-> d.id,
   name |-> Coalesce(d.name, Untitled),
   pricePerNight |-> ToNumber(Coalesce(d.pricePerNight, JNum(Fin(0)))),
   status |-> Coalesce(d.status, Available)]

\* mutant of DecodeDoc: the decoder forgets the stored status
DecodeDocDropsStatus(v, d) ==
  [(IF v = 1 THEN DecodeStrict(d) ELSE DecodeLoose(d)) EXCEPT !.status = Available]

DecodeDoc(v, d) == IF v = 1 THEN DecodeStrict(d) ELSE DecodeLoose(d)

DecodeAll(v, docs) == [i \in DOMAIN docs |-> DecodeDoc(v, docs[i])]

(***************************************************************************)
(* State.                                                                  *)
(***************************************************************************)
VARIABLES
  variant,          \* which DashboardPage runs (fixed)
  currentUser,      \* AuthProvider: currentUser (Null when signed out)
  loading,          \* AuthProvider: loading
  route,            \* the page that is mounted: "/dashboard" or "/login"
  properties,       \* DashboardPage: properties
  fetching,         \* DashboardPage: fetching
  modalOpen,        \* DashboardPage: modalOpen
  saving,           \* DashboardPage: saving
  error,            \* DashboardPage: error (Null or a message)
  deleteConfirmId,  \* DashboardPage: deleteConfirmId (NullId when null)
  deletingId,       \* DashboardPage: deletingId (NullId when null)
  lastUpdated,      \* DashboardPage: lastUpdated (<<>> is the empty string)
  store,            \* Firestore collection "properties", in document order
  nextId,           \* the id Firestore gives the next added document
  net               \* bag of Firestore calls awaiting their outcome

vars == <<variant, currentUser, loading, route, properties, fetching, modalOpen,
          saving, error, deleteConfirmId, deletingId, lastUpdated, store, nextId,
          net>>

auth == <<currentUser, loading, route>>
page == <<properties, fetching, modalOpen, saving, error, deleteConfirmId,
          deletingId, lastUpdated>>
remote == <<store, nextId>>

Users == {"u1", "u2"}

\* The documents of the collection before the client writes anything: one whose
\* fields were not written by this app's form.
RawDocs ==
  << [id |-> 1, name |-> JStr(<<" ", "Villa">>), pricePerNight |-> JStr(<<"-", "5">>),
      status |-> JStr(<<"Pending">>)] >>

FirstFreshId == Len(RawDocs) + 1

\* What the user may submit in the Add Property form: formName, formPrice and
\* formStatus.
Submissions ==
  { [name |-> <<>>, price |-> <<"120">>, status |-> Available],
    [name |-> <<" ">>, price |-> <<"120">>, status |-> Booked],
    [name |-> <<"Lakeview">>, price |-> <<"120">>, status |-> Available],
    [name |-> <<" ", "Lakeview", " ">>, price |-> <<" ", "5">>, status |-> Booked],
    [name |-> <<"Lakeview">>, price |-> <<>>, status |-> Available],
    [name |-> <<"Lakeview">>, price |-> <<"-", "5">>, status |-> Available],
    [name |-> <<"Lakeview">>, price |-> <<"abc">>, status |-> Booked] }

NoFields == [name |-> Undefined, pricePerNight |-> Undefined, status |-> Undefined]

\* A Firestore call in flight.  stage "sent": not yet answered; stage "ok": the
\* store has done it and the answer is on its way.  live is FALSE when the
\* component that made the call has been unmounted.  by is, for a getDocs, the
\* currentUser of the effect run that made the call.
ListMsg(u) == [op |-> "list", stage |-> "sent", live |-> TRUE, id |-> NullId,
               fields |-> NoFields, snap |-> <<>>, by |-> u]
InsertMsg(f) == [op |-> "insert", stage |-> "sent", live |-> TRUE, id |-> NullId,
                 fields |-> f, snap |-> <<>>, by |-> Null]
DeleteMsg(i) == [op |-> "delete", stage |-> "sent", live |-> TRUE, id |-> i,
                 fields |-> NoFields, snap |-> <<>>, by |-> Null]

SignOutMsg == [op |-> "signout", stage |-> "sent", live |-> TRUE, id |-> NullId,
               fields |-> NoFields, snap |-> <<>>, by |-> Null]

Send(m) == net (+) SetToBag({m})
Take(m) == net (-) SetToBag({m})
Replace(m, r) == (net (-) SetToBag({m})) (+) SetToBag({r})

\* the calls in flight, and how many of them are among the calls S
Calls == BagToSet(net)
InFlight(S) == BagCardinality([m \in S |-> net[m]])

LiveLists == {m \in Calls : m.op = "list" /\ m.live}
Deletes == {m \in Calls : m.op = "delete"}
PendingInserts == {m \in Calls : m.op = "insert" /\ m.stage = "sent"}
SignOuts == {m \in Calls : m.op = "signout"}

Ids(recs) == {recs[i].id : i \in DOMAIN recs}

\* the clock readings new Date() may give, in minutes
Times == 0..MaxClock

\* new Date().toLocaleTimeString([], {hour: "2-digit", minute: "2-digit"})
ToLocaleTimeString(t) == <<(t \div 60) % 24, t % 60>>

\* prev.filter((p) => p.id !== id)
RECURSIVE FilterOut(_, _)
FilterOut(recs, id) ==
  IF recs = <<>> THEN <<>>
  ELSE IF Head(recs).id # id THEN <<Head(recs)>> \o FilterOut(Tail(recs), id)
  ELSE FilterOut(Tail(recs), id)

\* derived counts
totalProperties == Len(properties)
availableCount == Cardinality({i \in DOMAIN properties : properties[i].status = Available})
bookedCount == Cardinality({i \in DOMAIN properties : properties[i].status = Booked})

\* the dashboard's controls are on screen
Rendered == route = "/dashboard" /\ ~loading /\ currentUser # Null

Init ==
  /\ variant \in {1, 2, 3}
  /\ currentUser = Null
  /\ loading = TRUE
  /\ route \in {"/dashboard", "/login"}
  /\ properties = <<>>
  /\ fetching = TRUE
  /\ modalOpen = FALSE
  /\ saving = FALSE
  /\ error = Null
  /\ deleteConfirmId = NullId
  /\ deletingId = NullId
  /\ lastUpdated = <<>>
  /\ store = RawDocs
  /\ nextId = FirstFreshId
  /\ net = EmptyBag

(***************************************************************************)
(* Session: AuthProvider's onAuthStateChanged callback, with the effects   *)
(* of the mounted page that depend on currentUser and loading.             *)
(***************************************************************************)

\* useState initial values of DashboardPage: the state of a page not mounted
FreshPage ==
  /\ properties' = <<>>
  /\ fetching' = TRUE
  /\ modalOpen' = FALSE
  /\ saving' = FALSE
  /\ error' = Null
  /\ deleteConfirmId' = NullId
  /\ deletingId' = NullId
  /\ lastUpdated' = <<>>

\* The calls left in flight by an unmounted page: its reads and the answers on
\* their way change nothing any more; its unanswered writes still reach the store.
Orphaned(b) ==
  LET keep == {m \in BagToSet(b) : m.op # "list" /\ m.stage = "sent"}
      alive(x) == [x EXCEPT !.live = TRUE]
      img == {[m EXCEPT !.live = FALSE] : m \in keep}
  IN [x \in img |-> (IF x \in keep THEN b[x] ELSE 0)
                    + (IF alive(x) \in keep THEN b[alive(x)] ELSE 0)]

\* fetchProperties up to its await, in the effect run for currentUser = u
FetchProperties(u) ==
  /\ InFlight(LiveLists) < MaxLoads
  /\ IF variant = 1
     THEN fetching' = TRUE /\ error' = Null
     ELSE UNCHANGED <<fetching, error>>
  /\ net' = Send(ListMsg(u))
  /\ UNCHANGED <<properties, modalOpen, saving, deleteConfirmId, deletingId,
                 lastUpdated>>

\* mutant of AuthStateChanged: the effect fetches without looking at currentUser
AuthStateChangedUngated(u) ==
  /\ loading \/ u # currentUser
  /\ currentUser' = u
  /\ loading' = FALSE
  /\ route' = IF u = Null THEN "/login" ELSE "/dashboard"
  /\ FetchProperties(u)
  /\ UNCHANGED <<variant, store, nextId>>

\* mutant of AuthStateChanged: the dashboard has no redirect effect
AuthStateChangedStays(u) ==
  /\ loading \/ u # currentUser
  /\ currentUser' = u
  /\ loading' = FALSE
  /\ IF u = Null
     THEN /\ route' = route
          /\ UNCHANGED <<page, net>>
     ELSE /\ route' = "/dashboard"
          /\ FetchProperties(u)
  /\ UNCHANGED <<variant, store, nextId>>

AuthStateChanged(u) ==
  /\ loading \/ u # currentUser
  /\ currentUser' = u
  /\ loading' = FALSE
  /\ IF u = Null
     THEN /\ route' = "/login"
          /\ FreshPage
          /\ net' = Orphaned(net)
     ELSE /\ route' = "/dashboard"
          /\ FetchProperties(u)
  /\ UNCHANGED <<variant, store, nextId>>

(***************************************************************************)
(* Firestore.                                                              *)
(***************************************************************************)
StoreList(m) ==
  /\ m.op = "list" /\ m.stage = "sent"
  /\ net' = Replace(m, [m EXCEPT !.stage = "ok", !.snap = store])
  /\ UNCHANGED <<variant, auth, page, remote>>

StoreInsert(m) ==
  /\ m.op = "insert" /\ m.stage = "sent"
  /\ store' = Append(store, [id |-> nextId, name |-> m.fields.name,
                             pricePerNight |-> m.fields.pricePerNight,
                             status |-> m.fields.status])
  /\ nextId' = nextId + 1
  /\ net' = IF m.live THEN Replace(m, [m EXCEPT !.stage = "ok", !.id = nextId])
            ELSE Take(m)
  /\ UNCHANGED <<variant, auth, page>>

StoreDelete(m) ==
  /\ m.op = "delete" /\ m.stage = "sent"
  /\ store' = FilterOut(store, m.id)
  /\ net' = IF m.live THEN Replace(m, [m EXCEPT !.stage = "ok"]) ELSE Take(m)
  /\ UNCHANGED <<variant, auth, page, nextId>>

\* a write of an unmounted page that the store rejects: nobody hears of it
StoreRejectOrphan(m) ==
  /\ ~m.live /\ m.stage = "sent"
  /\ net' = Take(m)
  /\ UNCHANGED <<variant, auth, page, remote>>

(***************************************************************************)
(* fetchProperties after its await.                                        *)
(***************************************************************************)
\* setLastUpdated(...) with the clock reading t; variant 3 has no lastUpdated
Stamp(t) == IF variant = 3 THEN lastUpdated ELSE ToLocaleTimeString(t)

LoadErrorMessage ==
  IF variant = 1 THEN "Could not load properties. Please try again later."
  ELSE "Failed to load properties."

\* mutant of LoadOk: the answer of an effect run older than the current one is
\* dropped, as an effect cleanup that cancels the older run would do
LoadOkLatestOnly(m, t) ==
  /\ m.op = "list" /\ m.stage = "ok"
  /\ IF m.by = currentUser
     THEN /\ properties' = DecodeAll(variant, m.snap)
          /\ lastUpdated' = Stamp(t)
          /\ fetching' = FALSE
     ELSE UNCHANGED <<properties, lastUpdated, fetching>>
  /\ net' = Take(m)
  /\ UNCHANGED <<variant, auth, modalOpen, saving, error, deleteConfirmId,
                 deletingId, remote>>

\* mutant of LoadOk: the decoded documents are added to the list already shown
LoadOkMerges(m, t) ==
  /\ m.op = "list" /\ m.stage = "ok"
  /\ properties' = properties \o DecodeAll(variant, m.snap)
  /\ lastUpdated' = Stamp(t)
  /\ fetching' = FALSE
  /\ net' = Take(m)
  /\ UNCHANGED <<variant, auth, modalOpen, saving, error, deleteConfirmId,
                 deletingId, remote>>

LoadOk(m, t) ==
  /\ m.op = "list" /\ m.stage = "ok"
  /\ properties' = DecodeAll(variant, m.snap)
  /\ lastUpdated' = Stamp(t)
  /\ fetching' = FALSE
  /\ net' = Take(m)
  /\ UNCHANGED <<variant, auth, modalOpen, saving, error, deleteConfirmId,
                 deletingId, remote>>

\* mutant of LoadFail: the catch branch also empties the list
LoadFailClears(m) ==
  /\ m.op = "list" /\ m.stage = "sent"
  /\ error' = LoadErrorMessage
  /\ fetching' = FALSE
  /\ properties' = <<>>
  /\ net' = Take(m)
  /\ UNCHANGED <<variant, auth, modalOpen, saving, deleteConfirmId,
                 deletingId, lastUpdated, remote>>

\* mutant of LoadFail: setFetching(false) is in the try block, not in finally
LoadFailKeepsFetching(m) ==
  /\ m.op = "list" /\ m.stage = "sent"
  /\ error' = LoadErrorMessage
  /\ net' = Take(m)
  /\ UNCHANGED <<variant, auth, properties, fetching, modalOpen, saving,
                 deleteConfirmId, deletingId, lastUpdated, remote>>

LoadFail(m) ==
  /\ m.op = "list" /\ m.stage = "sent"
  /\ error' = LoadErrorMessage
  /\ fetching' = FALSE
  /\ net' = Take(m)
  /\ UNCHANGED <<variant, auth, properties, modalOpen, saving, deleteConfirmId,
                 deletingId, lastUpdated, remote>>

(***************************************************************************)
(* Add Property: the modal and handleAddProperty.                          *)
(***************************************************************************)
OpenModal ==
  /\ Rendered
  /\ ~modalOpen
  /\ modalOpen' = TRUE
  /\ UNCHANGED <<variant, auth, properties, fetching, saving, error,
                 deleteConfirmId, deletingId, lastUpdated, remote, net>>

\* the modal's close and Cancel buttons: setModalOpen(false); resetForm()
CloseModal ==
  /\ Rendered
  /\ modalOpen
  /\ modalOpen' = FALSE
  /\ error' = Null
  /\ UNCHANGED <<variant, auth, properties, fetching, saving, deleteConfirmId,
                 deletingId, lastUpdated, remote, net>>

\* !formName.trim()
NameMissing(name) == Trim(name) = <<>>

\* variant 1: !formPrice || !Number.isFinite(priceNum) || priceNum < 0
PriceRejected(price) ==
  \/ price = <<>>
  \/ ~IsFinite(StringToNumber(price))
  \/ LtZero(StringToNumber(price))

\* the documents the model still lets the client add
InsertBudget == (nextId - FirstFreshId) + InFlight(PendingInserts) < MaxInserts

\* mutant of AddDoc: the record is put in the list before addDoc has answered
AddDocOptimistic(name, price, status) ==
  /\ InsertBudget
  /\ saving' = TRUE
  /\ error' = Null
  /\ properties' = Append(properties,
                          [id |-> NullId, name |-> JStr(Trim(name)),
                           pricePerNight |-> StringToNumber(price), status |-> status])
  /\ net' = Send(InsertMsg([name |-> JStr(Trim(name)),
                            pricePerNight |-> JNum(StringToNumber(price)),
                            status |-> status]))
  /\ UNCHANGED <<fetching, modalOpen, deleteConfirmId, deletingId, lastUpdated>>

\* the rest of handleAddProperty up to its await
AddDoc(name, price, status) ==
  /\ InsertBudget
  /\ saving' = TRUE
  /\ error' = Null
  /\ net' = Send(InsertMsg([name |-> JStr(Trim(name)),
                            pricePerNight |-> JNum(StringToNumber(price)),
                            status |-> status]))
  /\ UNCHANGED <<properties, fetching, modalOpen, deleteConfirmId, deletingId,
                 lastUpdated>>

HandleAddPropertyStrict(name, price, status) ==
  IF NameMissing(name)
  THEN /\ error' = "Property name is required."
       /\ UNCHANGED <<properties, fetching, modalOpen, saving, deleteConfirmId,
                      deletingId, lastUpdated, net>>
  ELSE IF PriceRejected(price)
  THEN /\ error' = "Please enter a valid non-negative price."
       /\ UNCHANGED <<properties, fetching, modalOpen, saving, deleteConfirmId,
                      deletingId, lastUpdated, net>>
  ELSE AddDoc(name, price, status)

HandleAddPropertyLoose(name, price, status) ==
  IF NameMissing(name) \/ price = <<>>
  THEN UNCHANGED <<page, net>>
  ELSE AddDoc(name, price, status)

\* the form is on screen and its submit button is not disabled
CanSubmit == Rendered /\ modalOpen /\ ~saving

\* the form's submit
HandleAddProperty(name, price, status) ==
  /\ CanSubmit
  /\ IF variant = 1
     THEN HandleAddPropertyStrict(name, price, status)
     ELSE HandleAddPropertyLoose(name, price, status)
  /\ UNCHANGED <<variant, auth, remote>>

\* the Property that handleAddProperty appends for an answered addDoc
NewProperty(m) ==
  [id |-> m.id, name |-> m.fields.name,
   pricePerNight |-> m.fields.pricePerNight.num, status |-> m.fields.status]

AddErrorMessage ==
  IF variant = 1 THEN "Failed to save property. Please try again."
  ELSE "Failed to add property. Please try again."

\* mutant of CreateOk: setProperties([new]) instead of [...prev, new]
CreateOkReplaces(m, t) ==
  /\ m.op = "insert" /\ m.stage = "ok"
  /\ properties' = <<NewProperty(m)>>
  /\ lastUpdated' = Stamp(t)
  /\ modalOpen' = FALSE
  /\ error' = Null
  /\ saving' = FALSE
  /\ net' = Take(m)
  /\ UNCHANGED <<variant, auth, fetching, deleteConfirmId, deletingId, remote>>

CreateOk(m, t) ==
  /\ m.op = "insert" /\ m.stage = "ok"
  /\ properties' = Append(properties, NewProperty(m))
  /\ lastUpdated' = Stamp(t)
  /\ modalOpen' = FALSE
  /\ error' = Null
  /\ saving' = FALSE
  /\ net' = Take(m)
  /\ UNCHANGED <<variant, auth, fetching, deleteConfirmId, deletingId, remote>>

\* mutant of CreateFail: the time is stamped although addDoc was rejected
CreateFailStamps(m) ==
  /\ m.op = "insert" /\ m.stage = "sent" /\ m.live
  /\ error' = AddErrorMessage
  /\ saving' = FALSE
  /\ \E t \in Times : lastUpdated' = ToLocaleTimeString(t)
  /\ net' = Take(m)
  /\ UNCHANGED <<variant, auth, properties, fetching, modalOpen, deleteConfirmId,
                 deletingId, remote>>

CreateFail(m) ==
  /\ m.op = "insert" /\ m.stage = "sent" /\ m.live
  /\ error' = AddErrorMessage
  /\ saving' = FALSE
  /\ net' = Take(m)
  /\ UNCHANGED <<variant, auth, properties, fetching, modalOpen, deleteConfirmId,
                 deletingId, lastUpdated, remote>>

(***************************************************************************)
(* Delete: the row button, the confirmation modal, handleDeleteProperty.   *)
(***************************************************************************)
\* mutant of RequestDelete: the row button deletes without confirmation
RequestDeleteAtOnce(id) ==
  /\ Rendered
  /\ variant # 3
  /\ ~fetching
  /\ id \in Ids(properties)
  /\ deletingId # id
  /\ InFlight(Deletes) < MaxDeletes
  /\ deleteConfirmId' = id
  /\ deletingId' = id
  /\ net' = Send(DeleteMsg(id))
  /\ UNCHANGED <<variant, auth, properties, fetching, modalOpen, saving, error,
                 lastUpdated, remote>>

\* a row's Delete button: rows are shown when not fetching; the button is
\* disabled while that row is being deleted
RequestDelete(id) ==
  /\ Rendered
  /\ variant # 3
  /\ ~fetching
  /\ id \in Ids(properties)
  /\ deletingId # id
  /\ deleteConfirmId' = id
  /\ UNCHANGED <<variant, auth, properties, fetching, modalOpen, saving, error,
                 deletingId, lastUpdated, remote, net>>

\* mutant of CancelDelete: cancelling also dismisses the error banner
CancelDeleteClearsError ==
  /\ Rendered
  /\ deleteConfirmId # NullId
  /\ deleteConfirmId' = NullId
  /\ error' = Null
  /\ UNCHANGED <<variant, auth, properties, fetching, modalOpen, saving,
                 deletingId, lastUpdated, remote, net>>

\* the confirmation modal's Cancel button
CancelDelete ==
  /\ Rendered
  /\ deleteConfirmId # NullId
  /\ deleteConfirmId' = NullId
  /\ UNCHANGED <<variant, auth, properties, fetching, modalOpen, saving, error,
                 deletingId, lastUpdated, remote, net>>

\* mutant of ConfirmDelete: the record is filtered out before deleteDoc is called
ConfirmDeleteOptimistic ==
  /\ Rendered
  /\ deleteConfirmId # NullId
  /\ variant = 1 => deletingId # deleteConfirmId
  /\ InFlight(Deletes) < MaxDeletes
  /\ deletingId' = deleteConfirmId
  /\ error' = IF variant = 1 THEN Null ELSE error
  /\ properties' = FilterOut(properties, deleteConfirmId)
  /\ net' = Send(DeleteMsg(deleteConfirmId))
  /\ UNCHANGED <<variant, auth, fetching, modalOpen, saving, deleteConfirmId,
                 lastUpdated, remote>>

\* the confirmation modal's Delete button: handleDeleteProperty(deleteConfirmId)
\* up to its await; variant 1 disables the button while that id is being deleted
ConfirmDelete ==
  /\ Rendered
  /\ deleteConfirmId # NullId
  /\ variant = 1 => deletingId # deleteConfirmId
  /\ InFlight(Deletes) < MaxDeletes
  /\ deletingId' = deleteConfirmId
  /\ error' = IF variant = 1 THEN Null ELSE error
  /\ net' = Send(DeleteMsg(deleteConfirmId))
  /\ UNCHANGED <<variant, auth, properties, fetching, modalOpen, saving,
                 deleteConfirmId, lastUpdated, remote>>

DeleteErrorMessage ==
  IF variant = 1 THEN "Could not delete property. Please try again."
  ELSE "Failed to delete property."

\* mutant of DeleteOk: the filter runs on the list as first loaded (a stale
\* closure over properties) instead of the updater's prev
DeleteOkStaleClosure(m, t) ==
  /\ m.op = "delete" /\ m.stage = "ok"
  /\ properties' = FilterOut(DecodeAll(variant, RawDocs), m.id)
  /\ lastUpdated' = Stamp(t)
  /\ deletingId' = NullId
  /\ deleteConfirmId' = NullId
  /\ net' = Take(m)
  /\ UNCHANGED <<variant, auth, fetching, modalOpen, saving, error, remote>>

\* mutant of DeleteOk: the list is cut at the deleted record (a splice without
\* its delete count) and the records after it go too
DeleteOkTruncates(m, t) ==
  /\ m.op = "delete" /\ m.stage = "ok"
  /\ properties' =
       IF m.id \in Ids(properties)
       THEN SubSeq(properties, 1,
                   (CHOOSE i \in DOMAIN properties :
                      /\ properties[i].id = m.id
                      /\ \A j \in 1..(i - 1) : properties[j].id # m.id) - 1)
       ELSE properties
  /\ lastUpdated' = Stamp(t)
  /\ deletingId' = NullId
  /\ deleteConfirmId' = NullId
  /\ net' = Take(m)
  /\ UNCHANGED <<variant, auth, fetching, modalOpen, saving, error, remote>>

\* mutant of DeleteOk: the record is filtered out before deleteDoc has resolved
DeleteOkUnawaited(m, t) ==
  /\ m.op = "delete" /\ m.stage = "sent" /\ m.live
  /\ properties' = FilterOut(properties, m.id)
  /\ lastUpdated' = Stamp(t)
  /\ deletingId' = NullId
  /\ deleteConfirmId' = NullId
  /\ net' = Take(m)
  /\ UNCHANGED <<variant, auth, fetching, modalOpen, saving, error, remote>>

\* mutant of DeleteOk: the finally branch leaves the confirmation modal's id set
DeleteOkKeepsConfirm(m, t) ==
  /\ m.op = "delete" /\ m.stage = "ok"
  /\ properties' = FilterOut(properties, m.id)
  /\ lastUpdated' = Stamp(t)
  /\ deletingId' = NullId
  /\ net' = Take(m)
  /\ UNCHANGED <<variant, auth, fetching, modalOpen, saving, error,
                 deleteConfirmId, remote>>

DeleteOk(m, t) ==
  /\ m.op = "delete" /\ m.stage = "ok"
  /\ properties' = FilterOut(properties, m.id)
  /\ lastUpdated' = Stamp(t)
  /\ deletingId' = NullId
  /\ deleteConfirmId' = NullId
  /\ net' = Take(m)
  /\ UNCHANGED <<variant, auth, fetching, modalOpen, saving, error, remote>>

\* mutant of DeleteFail: the catch branch removes the record all the same
DeleteFailRemoves(m) ==
  /\ m.op = "delete" /\ m.stage = "sent" /\ m.live
  /\ error' = DeleteErrorMessage
  /\ properties' = FilterOut(properties, m.id)
  /\ deletingId' = NullId
  /\ deleteConfirmId' = NullId
  /\ net' = Take(m)
  /\ UNCHANGED <<variant, auth, fetching, modalOpen, saving, lastUpdated, remote>>

DeleteFail(m) ==
  /\ m.op = "delete" /\ m.stage = "sent" /\ m.live
  /\ error' = DeleteErrorMessage
  /\ deletingId' = NullId
  /\ deleteConfirmId' = NullId
  /\ net' = Take(m)
  /\ UNCHANGED <<variant, auth, properties, fetching, modalOpen, saving,
                 lastUpdated, remote>>

(***************************************************************************)
(* Logout: handleLogout and Firebase Auth's signOut.                       *)
(***************************************************************************)
\* the Logout button: handleLogout up to its await
HandleLogout ==
  /\ Rendered
  /\ InFlight(SignOuts) < MaxSignOuts
  /\ net' = Send(SignOutMsg)
  /\ UNCHANGED <<variant, auth, page, remote>>

\* mutant of SignOutOk: the dashboard stays mounted with its list
SignOutOkKeepsList(m) ==
  /\ m.op = "signout"
  /\ currentUser' = Null
  /\ loading' = FALSE
  /\ route' = "/login"
  /\ net' = Take(m)
  /\ UNCHANGED <<variant, page, remote>>

\* signOut resolves: the session ends (onAuthStateChanged reports null) and
\* handleLogout goes on to router.replace("/login"); either unmounts the
\* dashboard, whose state is dropped with it
SignOutOk(m) ==
  /\ m.op = "signout"
  /\ currentUser' = Null
  /\ loading' = FALSE
  /\ route' = "/login"
  /\ FreshPage
  /\ net' = Orphaned(Take(m))
  /\ UNCHANGED <<variant, remote>>

\* signOut rejects: variant 1 logs it, variants 2 and 3 leave it unhandled
SignOutFail(m) ==
  /\ m.op = "signout"
  /\ net' = Take(m)
  /\ UNCHANGED <<variant, auth, page, remote>>

(***************************************************************************)
(* The program.                                                            *)
(***************************************************************************)
Next ==
  \/ \E u \in Users \cup {Null} : AuthStateChanged(u)
  \/ \E m \in Calls : StoreList(m)
  \/ \E m \in Calls : StoreInsert(m)
  \/ \E m \in Calls : StoreDelete(m)
  \/ \E m \in Calls : StoreRejectOrphan(m)
  \/ \E m \in Calls, t \in Times : LoadOk(m, t)
  \/ \E m \in Calls : LoadFail(m)
  \/ OpenModal
  \/ CloseModal
  \/ \E f \in Submissions : HandleAddProperty(f.name, f.price, f.status)
  \/ \E m \in Calls, t \in Times : CreateOk(m, t)
  \/ \E m \in Calls : CreateFail(m)
  \/ \E id \in Ids(properties) : RequestDelete(id)
  \/ CancelDelete
  \/ ConfirmDelete
  \/ \E m \in Calls, t \in Times : DeleteOk(m, t)
  \/ \E m \in Calls : DeleteFail(m)

Spec == Init /\ [][Next]_vars

(***************************************************************************)
(* The program when no Firestore call is rejected.                         *)
(***************************************************************************)
NextSuccess ==
  \/ \E u \in Users \cup {Null} : AuthStateChanged(u)
  \/ \E m \in Calls : StoreList(m)
  \/ \E m \in Calls : StoreInsert(m)
  \/ \E m \in Calls : StoreDelete(m)
  \/ \E m \in Calls, t \in Times : LoadOk(m, t)
  \/ OpenModal
  \/ CloseModal
  \/ \E f \in Submissions : HandleAddProperty(f.name, f.price, f.status)
  \/ \E m \in Calls, t \in Times : CreateOk(m, t)
  \/ \E id \in Ids(properties) : RequestDelete(id)
  \/ CancelDelete
  \/ ConfirmDelete
  \/ \E m \in Calls, t \in Times : DeleteOk(m, t)

SuccessSpec == Init /\ [][NextSuccess]_vars

(***************************************************************************)
(* Loading alone, from a collection that holds any documents: written by   *)
(* another tool or by hand, their fields may be missing or of any type.    *)
(***************************************************************************)
RawFields ==
  { [name |-> Undefined, pricePerNight |-> Undefined, status |-> Undefined],
    [name |-> JStr(<<>>), pricePerNight |-> JNum(Fin(-5)), status |-> JStr(<<"Pending">>)],
    [name |-> JStr(<<" ">>), pricePerNight |-> JStr(<<"abc">>), status |-> JNum(Fin(0))],
    [name |-> JNum(Fin(5)), pricePerNight |-> JNum(NaN), status |-> Booked],
    [name |-> JStr(<<" ", "Villa", " ">>), pricePerNight |-> JNum(PosInf), status |-> Available],
    [name |-> JStr(<<"Villa">>), pricePerNight |-> JNum(Fin(120)), status |-> Booked],
    [name |-> JStr(<<"Villa">>), pricePerNight |-> JStr(<<"120">>), status |-> JStr(<<"booked">>)],
    [name |-> JStr(<<"Villa">>), pricePerNight |-> JStr(<<"-", "5">>), status |-> Available] }

\* the document with id i and the fields f
RawDoc(i, f) == [id |-> i, name |-> f.name, pricePerNight |-> f.pricePerNight,
                 status |-> f.status]

RawStores ==
  {<<>>} \cup {<<RawDoc(1, f)>> : f \in RawFields}
         \cup {<<RawDoc(1, f), RawDoc(2, g)>> : f, g \in RawFields}

InitAnyStore ==
  /\ variant \in {1, 2, 3}
  /\ currentUser = Null
  /\ loading = TRUE
  /\ route \in {"/dashboard", "/login"}
  /\ properties = <<>>
  /\ fetching = TRUE
  /\ modalOpen = FALSE
  /\ saving = FALSE
  /\ error = Null
  /\ deleteConfirmId = NullId
  /\ deletingId = NullId
  /\ lastUpdated = <<>>
  /\ store \in RawStores
  /\ nextId = Len(store) + 1
  /\ net = EmptyBag

NextLoad ==
  \/ \E u \in Users \cup {Null} : AuthStateChanged(u)
  \/ \E m \in Calls : StoreList(m)
  \/ \E m \in Calls, t \in Times : LoadOk(m, t)
  \/ \E m \in Calls : LoadFail(m)

LoadSpec == InitAnyStore /\ [][NextLoad]_vars

(***************************************************************************)
(* The session and loading, with logout.  In Spec a logout is seen only as *)
(* its outcome, AuthStateChanged(Null); here its signOut call is a step.   *)
(***************************************************************************)
NextSession ==
  \/ \E u \in Users \cup {Null} : AuthStateChanged(u)
  \/ \E m \in Calls : StoreList(m)
  \/ \E m \in Calls, t \in Times : LoadOk(m, t)
  \/ \E m \in Calls : LoadFail(m)
  \/ HandleLogout
  \/ \E m \in Calls : SignOutOk(m)
  \/ \E m \in Calls : SignOutFail(m)

SessionSpec == Init /\ [][NextSession]_vars

(***************************************************************************)
(* Properties.                                                             *)
(***************************************************************************)
\* C1: a load whose getDocs rejects leaves the list as it was (nothing is
\* overwritten, not even in part) and sets the error message.
C1_LoadFailureKeepsRecords ==
  [][\A m \in Calls : LoadFail(m) => properties' = properties /\ error' # Null]_vars

\* a load has failed (variant 1 clears the error when a load starts) and the
\* records loaded or added before it are still listed
C1_Witness ==
  /\ variant = 1
  /\ error = LoadErrorMessage
  /\ ~fetching
  /\ properties # <<>>

\* C2: in every reachable state the Available and Booked counts add up to the
\* total number of records.
C2_CountsAddUp == availableCount + bookedCount = totalProperties

\* C3: in every reachable state no two entries of the list have the same id.
C3_NoDuplicateIds ==
  \A i, j \in DOMAIN properties : i # j => properties[i].id # properties[j].id

\* the entries a valid submission of the form yields, but for the id
CleanFields ==
  { [name |-> JStr(<<"Lakeview">>), pricePerNight |-> JNum(Fin(120)), status |-> Available],
    [name |-> JStr(<<"Lakeview">>), pricePerNight |-> JNum(Fin(5)), status |-> Booked] }

\* the price of the addDoc call m is a finite number >= 0
ValidPrice(m) == m.fields.pricePerNight.num.k = "fin" /\ m.fields.pricePerNight.num.n >= 0

\* C4: when addDoc resolves with id r for a valid submission, the list becomes
\* the previous list followed by exactly one entry: id r, the trimmed name,
\* the parsed price and the chosen status; lastUpdated is stamped (variants 1
\* and 2; variant 3 keeps no lastUpdated).
C4_CreateAppendsOne ==
  [][\A m \in Calls, t \in Times :
       (CreateOk(m, t) /\ ValidPrice(m)) =>
         /\ m.fields \in CleanFields
         /\ m.id # NullId
         /\ properties' = Append(properties,
                                 [id |-> m.id, name |-> m.fields.name,
                                  pricePerNight |-> m.fields.pricePerNight.num,
                                  status |-> m.fields.status])
         /\ variant # 3 => lastUpdated' = ToLocaleTimeString(t)]_vars

\* the added record is listed after a load had failed: the list holds it alone
\* while the store holds it after the older document
C4_Witness ==
  /\ Len(store) = 2
  /\ Len(properties) = 1
  /\ properties[1].id = store[2].id
  /\ properties[1].name = JStr(<<"Lakeview">>)
  /\ lastUpdated # <<>>
  /\ ~saving

\* the form submissions whose name is empty once trimmed
BlankNames == {<<>>, <<" ">>}

\* C5: whenever the form can be submitted, submitting a name that is empty
\* after trimming sets the error, leaves the list unchanged and issues no addDoc.
C5_BlankNameRejected ==
  \A f \in Submissions :
    (f.name \in BlankNames /\ CanSubmit) =>
      ENABLED (/\ HandleAddProperty(f.name, f.price, f.status)
               /\ error' # Null /\ properties' = properties /\ net' = net)

\* the form submissions whose price is empty, not a number or negative
BadPrices == {<<>>, <<"abc">>, <<"-", "5">>}

\* C6: whenever the form can be submitted, submitting a price that is empty,
\* not numeric or negative sets the error, leaves the list unchanged and
\* issues no addDoc.
C6_BadPriceRejected ==
  \A f \in Submissions :
    (f.name \notin BlankNames /\ f.price \in BadPrices /\ CanSubmit) =>
      ENABLED (/\ HandleAddProperty(f.name, f.price, f.status)
               /\ error' # Null /\ properties' = properties /\ net' = net)

C8_DeleteTakesTwoSteps ==
  [][/\ \A id \in Ids(properties) :
          RequestDelete(id) =>
            /\ deleteConfirmId' = id
            /\ properties' = properties /\ net' = net /\ store' = store
     /\ \A id \in Ids(properties) :
          CopiesIn(DeleteMsg(id), net') > CopiesIn(DeleteMsg(id), net) =>
            ConfirmDelete /\ deleteConfirmId = id
     /\ \A id \in Ids(properties) \ Ids(properties') :
          \/ \E m \in Calls, t \in Times : DeleteOk(m, t) /\ m.id = id
          \/ \E m \in Calls, t \in Times : LoadOk(m, t)
          \/ route' = "/login"]_vars

\* a delete has been requested and not confirmed: the record is listed and
\* stored, and no deleteDoc is in flight
C8_Witness ==
  /\ deleteConfirmId # NullId
  /\ deleteConfirmId \in Ids(properties)
  /\ deleteConfirmId \in Ids(store)
  /\ InFlight(Deletes) = 0

C10_FailedDeleteNotRestored ==
  [][\A m \in Calls :
       DeleteFail(m) => error' # Null /\ m.id \notin Ids(properties')]_vars

\* C10 amended: after a failed delete the error is set and the list is as it
\* was before the confirmation's deleteDoc answered: nothing had been removed.
C10_FailedDeleteKeepsRecords ==
  [][\A m \in Calls :
       DeleteFail(m) => error' # Null /\ properties' = properties]_vars

\* a delete has failed and the records are still listed
C10_Witness ==
  /\ error = DeleteErrorMessage
  /\ deletingId = NullId
  /\ deleteConfirmId = NullId
  /\ properties # <<>>
  /\ InFlight(Deletes) = 0

\* C11: on confirm deleteDoc is called first, with the list untouched; the
\* record is filtered out of the list only once the store has deleted the
\* document and the call has resolved; when deleteDoc rejects, the list is
\* unchanged.
C11_RemoteDeleteFirst ==
  [][/\ ConfirmDelete =>
          /\ properties' = properties
          /\ store' = store
          /\ CopiesIn(DeleteMsg(deleteConfirmId), net')
               = CopiesIn(DeleteMsg(deleteConfirmId), net) + 1
     /\ \A m \in Calls, t \in Times :
          DeleteOk(m, t) =>
            /\ m.id \notin Ids(store)
            /\ properties' = FilterOut(properties, m.id)
     /\ \A m \in Calls :
          DeleteFail(m) => properties' = properties /\ store' = store]_vars

\* the store has deleted the document and the answer is on its way: the
\* record is still listed
C11_Witness ==
  \E m \in Calls :
    /\ m.op = "delete" /\ m.stage = "ok"
    /\ m.id \notin Ids(store)
    /\ m.id \in Ids(properties)

\* C12: when a confirmed delete resolves, whether deleteDoc succeeded or
\* rejected, deleteConfirmId and deletingId are both null afterwards.
C12_DeleteCleanup ==
  [][\A m \in Calls :
       ((\E t \in Times : DeleteOk(m, t)) \/ DeleteFail(m)) =>
         deleteConfirmId' = NullId /\ deletingId' = NullId]_vars

\* a delete has succeeded: the document is gone from the store and from the
\* list, the list was stamped and both ids are null again
C12_Witness ==
  /\ Rendered
  /\ variant # 3
  /\ store = <<>>
  /\ properties = <<>>
  /\ lastUpdated # <<>>
  /\ deleteConfirmId = NullId
  /\ deletingId = NullId
  /\ net = EmptyBag

\* C13: the Cancel button of the confirmation modal sets deleteConfirmId to
\* null and changes nothing else: the list, the error, lastUpdated, the store
\* and the calls in flight are as before.
C13_CancelOnlyClearsPending ==
  [][CancelDelete =>
       /\ deleteConfirmId' = NullId
       /\ UNCHANGED <<variant, auth, properties, fetching, modalOpen, saving,
                      error, deletingId, lastUpdated, remote, net>>]_vars

\* a delete was confirmed and then cancelled while its deleteDoc is in
\* flight: the call goes on and the record is still marked as being deleted
C13_Witness ==
  /\ deleteConfirmId = NullId
  /\ deletingId # NullId
  /\ InFlight(Deletes) = 1
  /\ deletingId \in Ids(properties)

\* a stored pricePerNight that is missing, not numeric, not finite or negative
MalformedPrice(v) ==
  \/ v.t = "undefined"
  \/ ~IsFinite(ToNumber(v))
  \/ LtZero(ToNumber(v))

\* a stored status that is missing or is neither "Available" nor "Booked"
MalformedStatus(v) == v \notin {Available, Booked}

\* C14: when a load succeeds, every returned document whose pricePerNight is
\* missing or malformed is listed with price 0, and every returned document
\* whose status is missing or not Available/Booked is listed as Available.
C14_DefensiveDecode ==
  [][\A m \in Calls, t \in Times :
       LoadOk(m, t) =>
         \A i \in DOMAIN m.snap :
           /\ MalformedPrice(m.snap[i].pricePerNight) =>
                properties'[i].pricePerNight = Fin(0)
           /\ MalformedStatus(m.snap[i].status) =>
                properties'[i].status = Available]_vars

\* C15: in every reachable state every listed record has a finite price >= 0,
\* whether it was decoded by a load or appended by an add.
C15_PricesFiniteNonNegative ==
  \A i \in DOMAIN properties :
    IsFinite(properties[i].pricePerNight) /\ GeZero(properties[i].pricePerNight)

\* C16: in every reachable state every listed record has a name that is a
\* non-empty string without leading or trailing whitespace, also when it was
\* decoded from a document whose name is empty, blank or not a string.
C16_NamesTrimmedNonEmpty ==
  \A i \in DOMAIN properties :
    /\ properties[i].name.t = "string"
    /\ properties[i].name.str # <<>>
    /\ Trim(properties[i].name.str) = properties[i].name.str

\* C17: a successful load replaces the list wholesale: afterwards the list is
\* exactly the decoded documents of the snapshot, one entry per document in
\* the snapshot's order, whatever was listed before, and lastUpdated is
\* stamped (variants 1 and 2; variant 3 keeps no lastUpdated).
C17_LoadReplacesWholesale ==
  [][\A m \in Calls, t \in Times :
       LoadOk(m, t) =>
         /\ Len(properties') = Len(m.snap)
         /\ \A i \in DOMAIN m.snap :
              /\ properties'[i].id = m.snap[i].id
              /\ properties'[i] = DecodeDoc(variant, m.snap[i])
         /\ variant # 3 => lastUpdated' = ToLocaleTimeString(t)]_vars

\* a document was added and listed, then a load whose snapshot was taken
\* before the add has replaced the list: the added record is not kept
C17_Witness ==
  /\ Rendered
  /\ variant # 3
  /\ Len(store) = 2
  /\ Ids(properties) = {store[1].id}
  /\ Len(properties) = 1
  /\ ~fetching /\ ~saving /\ ~modalOpen
  /\ lastUpdated # <<>>
  /\ net = EmptyBag

\* C18: once no call is in flight, and no call was rejected, the ids listed
\* on the dashboard are the ids of the documents in the store.
C18_ConsistentWhenQuiet ==
  (Rendered /\ net = EmptyBag) => Ids(properties) = Ids(store)

\* C19: no answer of a load is discarded as stale.  Whichever effect run made
\* the call, and whatever other loads have answered before it, a getDocs
\* answer that arrives is applied and the list becomes its decoded snapshot:
\* of two loads in flight together, the one that resolves last decides the list.
C19_LastResponseWins ==
  \A m \in LiveLists :
    m.stage = "ok" =>
      ENABLED (\E t \in Times :
                 LoadOk(m, t) /\ properties' = DecodeAll(variant, m.snap))

\* two loads were in flight together; the one of the current effect run has
\* resolved and the list shows the store's documents; the answer of the older
\* run, with another snapshot, is still to arrive
C19_Witness ==
  \E m \in LiveLists :
    /\ m.stage = "ok"
    /\ m.by # currentUser
    /\ InFlight(LiveLists) = 1
    /\ ~fetching
    /\ lastUpdated # <<>>
    /\ m.snap # store
    /\ properties = DecodeAll(variant, store)

\* C20: every load whose getDocs is answered, with a snapshot or with a
\* rejection, ends with fetching = FALSE.
C20_LoadEndsNotFetching ==
  [][\A m \in Calls :
       ((\E t \in Times : LoadOk(m, t)) \/ LoadFail(m)) => fetching' = FALSE]_vars

\* the first load of a mounted dashboard was rejected: nothing is listed, the
\* error is shown and the page is no longer fetching
C20_Witness ==
  /\ Rendered
  /\ error = LoadErrorMessage
  /\ ~fetching
  /\ properties = <<>>
  /\ lastUpdated = <<>>
  /\ net = EmptyBag

\* C21: a getDocs is issued only by a step that leaves a session identity
\* present, for that identity, and every change of the session to a signed-in
\* identity issues one.
C21_LoadGatedOnSession ==
  [][/\ \A u \in Users \cup {Null} :
          CopiesIn(ListMsg(u), net') > CopiesIn(ListMsg(u), net) =>
            u # Null /\ currentUser' = u
     /\ \A u \in Users :
          AuthStateChanged(u) =>
            CopiesIn(ListMsg(u), net') = CopiesIn(ListMsg(u), net) + 1]_vars

\* a user is signed in and the load of that session is in flight
C21_Witness ==
  /\ currentUser \in Users
  /\ Rendered
  /\ CopiesIn(ListMsg(currentUser), net) = 1

\* C22 as stated: a logout request calls signOut once, and once that call has
\* come back the list is empty.
C22_LogoutEmptiesList ==
  [][/\ HandleLogout => CopiesIn(SignOutMsg, net') = CopiesIn(SignOutMsg, net) + 1
     /\ \A m \in Calls :
          (m.live /\ (SignOutOk(m) \/ SignOutFail(m))) => properties' = <<>>]_vars

\* C22 amended: a logout request calls signOut once and changes nothing else;
\* when signOut resolves the session is over, /login is shown and the list is
\* empty; when signOut rejects the session and the list are as before.
C22_LogoutDropsListOnSuccess ==
  [][/\ HandleLogout =>
          /\ CopiesIn(SignOutMsg, net') = CopiesIn(SignOutMsg, net) + 1
          /\ UNCHANGED <<auth, page, remote>>
     /\ \A m \in Calls :
          SignOutOk(m) =>
            properties' = <<>> /\ currentUser' = Null /\ route' = "/login"
     /\ \A m \in Calls :
          SignOutFail(m) => UNCHANGED <<auth, page, remote>>]_vars

\* logout was requested on a dashboard that lists records: its signOut call
\* is in flight
C22_Witness ==
  /\ Rendered
  /\ properties # <<>>
  /\ CopiesIn(SignOutMsg, net) = 1

\* C23: whenever the session has finished loading and nobody is signed in,
\* the page shown is /login, the dashboard's controls are not rendered and no
\* record is listed.
C23_SignedOutShowsLogin ==
  (~loading /\ currentUser = Null) =>
    route = "/login" /\ ~Rendered /\ properties = <<>>

\* the session went from signed-in to signed-out: the dashboard that was
\* mounted has left a signOut call behind
C23_Witness ==
  /\ ~loading
  /\ currentUser = Null
  /\ route = "/login"
  /\ \E m \in Calls : m.op = "signout" /\ ~m.live

C25_VariantsAgree ==
  [][/\ \A m \in Calls, t \in Times :
          LoadOk(m, t) => \A v \in {1, 2, 3} : properties' = DecodeAll(v, m.snap)
     /\ \A f \in Submissions :
          (HandleAddProperty(f.name, f.price, f.status) /\ net' # net) =>
            ~NameMissing(f.name) /\ ~PriceRejected(f.price)]_vars

C27_DeletedStaysGone ==
  [][\A id \in 1..(nextId - 1) :
       (Rendered /\ id \notin Ids(store) /\ id \notin Ids(properties)) =>
         id \notin Ids(properties')]_vars

\* C28: when the delete of one record completes, with success or failure, a
\* confirmation pending for another record and the deleting mark of another
\* record are left as they are.
C28_CompletionClearsOwnMarkers ==
  [][\A m \in Calls :
       ((\E t \in Times : DeleteOk(m, t)) \/ DeleteFail(m)) =>
         /\ deleteConfirmId # m.id => deleteConfirmId' = deleteConfirmId
         /\ deletingId # m.id => deletingId' = deletingId]_vars

\* C29: no lost update between an add and a delete of another record that are
\* in flight together.  When the addDoc answer is applied, everything listed
\* stays listed and the new record is added; when the deleteDoc answer is
\* applied, everything listed but the deleted record stays listed, the record
\* added meanwhile included.
C29_NoLostUpdate ==
  [][/\ \A m \in Calls, t \in Times :
          CreateOk(m, t) => Ids(properties') = Ids(properties) \cup {m.id}
     /\ \A m \in Calls, t \in Times :
          DeleteOk(m, t) => Ids(properties') = Ids(properties) \ {m.id}]_vars

\* an add and the delete of another, listed record are in flight together and
\* the store has done both
C29_Witness ==
  \E a, d \in Calls :
    /\ a.op = "insert" /\ a.stage = "ok"
    /\ d.op = "delete" /\ d.stage = "ok"
    /\ a.id # d.id
    /\ d.id \in Ids(properties)

====
